---------------------------- MODULE Spec2Model ----------------------------
(***************************************************************************)
(* Heads-up Texas Hold'em engine of src/main.py (TexasHoldemEngine and the *)
(* four endpoints that drive the single game_instance).                    *)
(*                                                                         *)
(* The engine's fields are the variables; every public operation           *)
(* (start_new_hand, reset_game, process_action, process_cpu_action) is one *)
(* action that performs the whole call, including _apply_action,           *)
(* _check_round_end, advance_phase and evaluate_winner.  The narration     *)
(* message is the sequence of the fragments the code concatenates (the     *)
(* interpolated names and numbers are left out); the Japanese hand names   *)
(* are written in English; a player's display name is not modelled.        *)
(***************************************************************************)
EXTENDS Integers, Sequences, FiniteSets, TLC

(***************************************************************************)
(* Bounds of the exploration.                                              *)
(***************************************************************************)
\* hands that start_new_hand / reset_game may actually start in one run
MaxHands == 2
\* raise submissions (by either seat, through either endpoint) in one run
MaxRaises == 1
\* calls a well-behaved caller does not make: an action out of turn, in
\* phase SHOWDOWN, before any hand was started, with an unknown id or action
\* type or a negative amount; a hand asked for while one is in progress
MaxIrregular == 1

(***************************************************************************)
(* Program constants.                                                      *)
(***************************************************************************)
StartingStack == 1000
SmallBlind == 10
BigBlind == 20

PlayerIds == {"p1", "p2"}
Other(pid) == IF pid = "p1" THEN "p2" ELSE "p1"


(***************************************************************************)
(* Cards and the deck.                                                     *)
(***************************************************************************)
Suits == <<"Spades", "Hearts", "Diamonds", "Clubs">>

\* Card(suit, rank)
Card(s, r) == [suit |-> s, rank |-> r]
suit(c) == c.suit
rank(c) == c.rank

\* Deck.__init__ before the shuffle: suit-major, ranks ascending
FreshDeck == [i \in 1..52 |-> Card(Suits[((i - 1) \div 13) + 1], ((i - 1) % 13) + 2)]

RECURSIVE SeqReverse(_)
SeqReverse(s) == IF s = <<>> THEN <<>> ELSE SeqReverse(Tail(s)) \o <<Head(s)>>

SeqRange(s) == {s[i] : i \in DOMAIN s}

\* A permutation of the 52 cards whose draws (pops from the end) are `top`
\* in order; the other cards keep their fresh order below them.
Stacked(top) ==
    SelectSeq(FreshDeck, LAMBDA c : c \notin SeqRange(top)) \o SeqReverse(top)

\* The outcomes of random.shuffle that are explored.  Draw order in a hand:
\* p1's two hole cards, p2's two hole cards, flop (3), turn, river.
Shuffles ==
    { Stacked(<< Card("Spades", 14), Card("Hearts", 14),
                 Card("Spades", 13), Card("Hearts", 13),
                 Card("Clubs", 2), Card("Diamonds", 7), Card("Spades", 9),
                 Card("Clubs", 11), Card("Diamonds", 3) >>),
      Stacked(<< Card("Spades", 2), Card("Hearts", 7),
                 Card("Diamonds", 12), Card("Clubs", 5),
                 Card("Spades", 12), Card("Diamonds", 5), Card("Clubs", 9),
                 Card("Hearts", 5), Card("Spades", 8) >>),
      Stacked(<< Card("Spades", 3), Card("Hearts", 4),
                 Card("Diamonds", 3), Card("Clubs", 4),
                 Card("Spades", 14), Card("Diamonds", 13), Card("Clubs", 12),
                 Card("Hearts", 11), Card("Spades", 10) >>) }

\* Deck.draw: pop the last card; <<card, rest>>
Draw(d) == << d[Len(d)], SubSeq(d, 1, Len(d) - 1) >>

\* n successive draws, in draw order; <<cards, rest>>
RECURSIVE DrawN(_, _)
DrawN(d, n) ==
    IF n = 0 THEN << <<>>, d >>
    ELSE LET one == Draw(d)
             more == DrawN(one[2], n - 1)
         IN << <<one[1]>> \o more[1], more[2] >>

(***************************************************************************)
(* Hand evaluation.                                                        *)
(***************************************************************************)
RanksOf(cards) == [i \in DOMAIN cards |-> rank(cards[i])]
SuitsOf(cards) == [i \in DOMAIN cards |-> suit(cards[i])]

\* Counter(ranks)[r]
CountOf(ranks, r) == Cardinality({i \in DOMAIN ranks : ranks[i] = r})

SetMax(S) == CHOOSE x \in S : \A y \in S : y <= x
SetMin(S) == CHOOSE x \in S : \A y \in S : x <= y


\* Python's comparison of two lists of integers: a > b
RECURSIVE LexGT(_, _)
LexGT(a, b) ==
    IF a = <<>> THEN FALSE
    ELSE IF b = <<>> THEN TRUE
    ELSE IF Head(a) # Head(b) THEN Head(a) > Head(b)
    ELSE LexGT(Tail(a), Tail(b))

\* Python's comparison of two pairs of integers: a > b
PairGT(a, b) == a[1] > b[1] \/ (a[1] = b[1] /\ a[2] > b[2])

\* sorted(pairs, reverse=True) of a list of pairs of integers, by insertion
RECURSIVE InsertDesc(_, _)
InsertDesc(k, sorted) ==
    IF sorted = <<>> THEN <<k>>
    ELSE IF PairGT(Head(sorted), k)
         THEN <<Head(sorted)>> \o InsertDesc(k, Tail(sorted))
         ELSE <<k>> \o sorted

RECURSIVE SortPairsDesc(_)
SortPairsDesc(s) ==
    IF s = <<>> THEN <<>> ELSE InsertDesc(Head(s), SortPairsDesc(Tail(s)))

\* sorted(s, reverse=True) of a list of integers
SortDesc(s) ==
    LET sorted == SortPairsDesc([i \in DOMAIN s |-> << s[i], 0 >>])
    IN [i \in DOMAIN sorted |-> sorted[i][1]]

\* sorted(set(ranks)) : the distinct values, ascending
RECURSIVE SortedSet(_)
SortedSet(S) ==
    IF S = {} THEN <<>>
    ELSE LET m == SetMin(S) IN <<m>> \o SortedSet(S \ {m})

\* list(Counter(ranks).values()) from position i on: the count of every
\* rank, at its first occurrence
RECURSIVE CounterValues(_, _)
CounterValues(ranks, i) ==
    IF i > Len(ranks) THEN <<>>
    ELSE (IF \E j \in 1..(i - 1) : ranks[j] = ranks[i] THEN <<>>
          ELSE << CountOf(ranks, ranks[i]) >>)
         \o CounterValues(ranks, i + 1)

\* sorted(Counter(ranks).values(), reverse=True)
CountsDesc(ranks) == SortDesc(CounterValues(ranks, 1))

\* sorted(ranks, key=lambda x: (rank_counts[x], x), reverse=True)
SortByCountRank(ranks) ==
    LET keys == [i \in DOMAIN ranks |-> << CountOf(ranks, ranks[i]), ranks[i] >>]
        sorted == SortPairsDesc(keys)
    IN [i \in DOMAIN sorted |-> sorted[i][2]]

\* evaluate_hand_strict(cards) for 5 cards: <<hand_score, sorted_ranks>>
evaluate_hand_strict(cards) ==
    LET ranks == RanksOf(cards)
        rset == SeqRange(ranks)
        counts == CountsDesc(ranks)
        wheel == rset = {14, 5, 4, 3, 2}
        is_flush == Cardinality(SeqRange(SuitsOf(cards))) = 1
        is_straight ==
            \/ Cardinality(rset) = 5 /\ SetMax(rset) - SetMin(rset) = 4
            \/ wheel
        sorted_ranks == IF wheel THEN <<5, 4, 3, 2, 14>>
                        ELSE SortByCountRank(ranks)
        hand_score ==
            IF is_straight /\ is_flush THEN 8
            ELSE IF counts = <<4, 1>> THEN 7
            ELSE IF counts = <<3, 2>> THEN 6
            ELSE IF is_flush THEN 5
            ELSE IF is_straight THEN 4
            ELSE IF counts = <<3, 1, 1>> THEN 3
            ELSE IF counts = <<2, 2, 1>> THEN 2
            ELSE IF counts = <<2, 1, 1, 1>> THEN 1
            ELSE 0
    IN << hand_score, sorted_ranks >>

\* Python's comparison of two (hand_score, sorted_ranks) tuples: a > b
EvalGT(a, b) == IF a[1] # b[1] THEN a[1] > b[1] ELSE LexGT(a[2], b[2])

\* list(itertools.combinations(s, k)), in itertools' order
RECURSIVE Combinations(_, _)
Combinations(s, k) ==
    IF k = 0 THEN << <<>> >>
    ELSE IF Len(s) < k THEN <<>>
    ELSE LET with == Combinations(Tail(s), k - 1)
         IN [i \in DOMAIN with |-> <<Head(s)>> \o with[i]]
               \o Combinations(Tail(s), k)

\* the loop of get_best_hand over the combinations from position i on
RECURSIVE BestFrom(_, _, _)
BestFrom(combos, i, best_eval) ==
    IF i > Len(combos) THEN best_eval
    ELSE LET current_eval == evaluate_hand_strict(combos[i])
         IN BestFrom(combos, i + 1,
                     IF EvalGT(current_eval, best_eval) THEN current_eval
                     ELSE best_eval)

\* get_best_hand(seven_cards)
get_best_hand(seven_cards) ==
    BestFrom(Combinations(seven_cards, 5), 1, << -1, <<>> >>)

\* the scan for 5 consecutive ranks in get_current_hand_name
RECURSIVE StraightScan(_, _, _)
StraightScan(u, i, consecutive) ==
    IF i > Len(u) - 1 THEN FALSE
    ELSE IF u[i + 1] = u[i] + 1
         THEN (consecutive + 1 >= 5) \/ StraightScan(u, i + 1, consecutive + 1)
         ELSE StraightScan(u, i + 1, 1)

\* get_current_hand_name(cards)
get_current_hand_name(cards) ==
    IF cards = <<>> THEN ""
    ELSE
    LET ranks == RanksOf(cards)
        suits == SuitsOf(cards)
        counts == CountsDesc(ranks)
        is_flush == \E s \in SeqRange(suits) :
                       Cardinality({i \in DOMAIN suits : suits[i] = s}) >= 5
        sorted_unique == SortedSet(SeqRange(ranks))
        unique_ranks == IF 14 \in SeqRange(ranks) THEN <<1>> \o sorted_unique
                        ELSE sorted_unique
        is_straight == StraightScan(unique_ranks, 1, 1)
    IN IF is_straight /\ is_flush THEN "StraightFlush"
       ELSE IF counts[1] = 4 THEN "FourOfAKind"
       ELSE IF counts[1] = 3 /\ Len(counts) > 1 /\ counts[2] >= 2 THEN "FullHouse"
       ELSE IF is_flush THEN "Flush"
       ELSE IF is_straight THEN "Straight"
       ELSE IF counts[1] = 3 THEN "ThreeOfAKind"
       ELSE IF counts[1] = 2 /\ Len(counts) > 1 /\ counts[2] >= 2 THEN "TwoPair"
       ELSE IF counts[1] = 2 THEN "OnePair"
       ELSE "HighCard"


(***************************************************************************)
(* The engine.  The pure operators below take and return the engine as a   *)
(* record g of its fields, so that one action can chain the calls the code *)
(* makes.                                                                  *)
(***************************************************************************)
NoAction == << "", 0 >>

\* Player.__init__
Player(stack) ==
    [stack |-> stack, hand |-> <<>>, current_bet |-> 0, is_active |-> TRUE,
     last_action |-> NoAction]

\* TexasHoldemEngine.__init__, for one outcome of the shuffle
Engine(shuffle) ==
    [players |-> [p1 |-> Player(StartingStack), p2 |-> Player(StartingStack)],
     dealer_button |-> "p2",
     deck |-> shuffle,
     community_cards |-> <<>>,
     pot |-> 0,
     highest_bet |-> 0,
     phase |-> "PREFLOP",
     current_turn |-> "p1",
     message |-> <<"init">>,
     actions_this_round |-> 0]

Min(a, b) == IF a <= b THEN a ELSE b
Max(a, b) == IF a >= b THEN a ELSE b

\* NoChips with < for <=
NoChipsStrict(g) == g.players.p1.stack < 0 \/ g.players.p2.stack < 0

\* start_new_hand refuses to start (line 133)
NoChips(g) == g.players.p1.stack <= 0 \/ g.players.p2.stack <= 0

\* NextButton that leaves the button where it is
NextButtonKept(g) == g.dealer_button

\* the rotation of the dealer button (line 149)
NextButton(g) == IF g.dealer_button = "p1" THEN "p2" ELSE "p1"

\* start_new_hand, for one outcome of the shuffle
start_new_hand(g, shuffle) ==
    IF NoChips(g) THEN [g EXCEPT !.message = <<"no_chips">>]
    ELSE
    LET h1 == DrawN(shuffle, 2)
        h2 == DrawN(h1[2], 2)
        button == NextButton(g)
        sb_id == button
        bb_id == IF sb_id = "p1" THEN "p2" ELSE "p1"
        sb_actual == Min(SmallBlind, g.players[sb_id].stack)
        bb_actual == Min(BigBlind, g.players[bb_id].stack)
        dealt == [p1 |-> [g.players.p1 EXCEPT !.hand = h1[1], !.current_bet = 0,
                             !.is_active = TRUE, !.last_action = NoAction],
                  p2 |-> [g.players.p2 EXCEPT !.hand = h2[1], !.current_bet = 0,
                             !.is_active = TRUE, !.last_action = NoAction]]
        posted == [dealt EXCEPT
                     ![sb_id].stack = @ - sb_actual,
                     ![sb_id].current_bet = sb_actual,
                     ![sb_id].last_action = << "SB", sb_actual >>,
                     ![bb_id].stack = @ - bb_actual,
                     ![bb_id].current_bet = bb_actual,
                     ![bb_id].last_action = << "BB", bb_actual >>]
    IN [players |-> posted,
        dealer_button |-> button,
        deck |-> h2[2],
        community_cards |-> <<>>,
        pot |-> sb_actual + bb_actual,
        highest_bet |-> Max(sb_actual, bb_actual),
        phase |-> "PREFLOP",
        current_turn |-> sb_id,
        message |-> IF sb_id = "p1" THEN <<"start", "your_turn">> ELSE <<"start">>,
        actions_this_round |-> 0]

\* reset_game, for one outcome of the shuffle
reset_game(g, shuffle) ==
    LET refilled == [g EXCEPT !.players.p1.stack = StartingStack,
                              !.players.p2.stack = StartingStack,
                              !.dealer_button = "p2"]
    IN [start_new_hand(refilled, shuffle) EXCEPT !.message = <<"reset">>]

\* evaluate_winner that gives a tied pot to p1
evaluate_winner_no_split(g) ==
    LET p1_eval == get_best_hand(g.players.p1.hand \o g.community_cards)
        p2_eval == get_best_hand(g.players.p2.hand \o g.community_cards)
    IN IF EvalGT(p2_eval, p1_eval)
       THEN [g EXCEPT !.players.p2.stack = @ + g.pot,
                      !.message = @ \o <<"p2_wins">>,
                      !.pot = 0]
       ELSE [g EXCEPT !.players.p1.stack = @ + g.pot,
                      !.message = @ \o <<"p1_wins">>,
                      !.pot = 0]

\* evaluate_winner that splits a tied pot of 2k + 1 chips into k and k and
\* a tied pot of 2k chips into k - 1 and k - 1
evaluate_winner_short_split(g) ==
    LET p1_eval == get_best_hand(g.players.p1.hand \o g.community_cards)
        p2_eval == get_best_hand(g.players.p2.hand \o g.community_cards)
    IN IF EvalGT(p1_eval, p2_eval)
       THEN [g EXCEPT !.players.p1.stack = @ + g.pot,
                      !.message = @ \o <<"p1_wins">>,
                      !.pot = 0]
       ELSE IF EvalGT(p2_eval, p1_eval)
       THEN [g EXCEPT !.players.p2.stack = @ + g.pot,
                      !.message = @ \o <<"p2_wins">>,
                      !.pot = 0]
       ELSE [g EXCEPT !.players.p1.stack = @ + ((g.pot - 1) \div 2),
                      !.players.p2.stack = @ + ((g.pot - 1) \div 2),
                      !.message = @ \o <<"draw">>,
                      !.pot = 0]

\* evaluate_winner
evaluate_winner(g) ==
    LET p1_eval == get_best_hand(g.players.p1.hand \o g.community_cards)
        p2_eval == get_best_hand(g.players.p2.hand \o g.community_cards)
    IN IF EvalGT(p1_eval, p2_eval)
       THEN [g EXCEPT !.players.p1.stack = @ + g.pot,
                      !.message = @ \o <<"p1_wins">>,
                      !.pot = 0]
       ELSE IF EvalGT(p2_eval, p1_eval)
       THEN [g EXCEPT !.players.p2.stack = @ + g.pot,
                      !.message = @ \o <<"p2_wins">>,
                      !.pot = 0]
       ELSE [g EXCEPT !.players.p1.stack = @ + (g.pot \div 2),
                      !.players.p2.stack = @ + (g.pot \div 2),
                      !.message = @ \o <<"draw">>,
                      !.pot = 0]

\* CardsDealt with a flop of two cards
CardsDealtShortFlop(phase) ==
    IF phase = "PREFLOP" THEN 2 ELSE IF phase \in {"FLOP", "TURN"} THEN 1 ELSE 0

\* CardsDealt with no river card
CardsDealtNoRiver(phase) ==
    IF phase = "PREFLOP" THEN 3 ELSE IF phase = "FLOP" THEN 1 ELSE 0

\* the cards advance_phase deals on leaving a phase
CardsDealt(phase) ==
    IF phase = "PREFLOP" THEN 3 ELSE IF phase \in {"FLOP", "TURN"} THEN 1 ELSE 0

\* the phase advance_phase moves to (lines 322-334)
NextPhase(phase) ==
    CASE phase = "PREFLOP" -> "FLOP"
      [] phase = "FLOP" -> "TURN"
      [] phase = "TURN" -> "RIVER"
      [] phase = "RIVER" -> "SHOWDOWN"
      [] OTHER -> phase

\* advance_phase
RECURSIVE advance_phase(_)
advance_phase(g) ==
    LET counted == [g EXCEPT !.actions_this_round = 0]
        is_all_in == g.players.p1.stack = 0 \/ g.players.p2.stack = 0
    IN IF g.phase = "RIVER"
       THEN evaluate_winner([counted EXCEPT !.phase = "SHOWDOWN"])
       ELSE
       LET drawn == DrawN(g.deck, CardsDealt(g.phase))
           moved == [counted EXCEPT
                       !.phase = NextPhase(g.phase),
                       !.community_cards = @ \o drawn[1],
                       !.deck = drawn[2],
                       !.highest_bet = 0,
                       !.players.p1.current_bet = 0,
                       !.players.p1.last_action = NoAction,
                       !.players.p2.current_bet = 0,
                       !.players.p2.last_action = NoAction]
       IN IF is_all_in /\ moved.phase # "SHOWDOWN"
          THEN advance_phase(moved)
          ELSE moved

\* is_round_over without the count of the actions
is_round_over_uncounted(g) ==
    LET p1 == g.players.p1
        p2 == g.players.p2
    IN \/ p1.current_bet = p2.current_bet
       \/ p1.current_bet > p2.current_bet /\ p2.stack = 0
       \/ p2.current_bet > p1.current_bet /\ p1.stack = 0

\* the test of _check_round_end (lines 294-299)
is_round_over(g) ==
    LET p1 == g.players.p1
        p2 == g.players.p2
    IN \/ p1.current_bet = p2.current_bet /\ g.actions_this_round >= 2
       \/ p1.current_bet > p2.current_bet /\ p2.stack = 0
       \/ p2.current_bet > p1.current_bet /\ p1.stack = 0

\* Refund that leaves the refunded chips in the pot as well
RefundKeepsPot(g) ==
    LET p1 == g.players.p1
        p2 == g.players.p2
    IN IF p1.current_bet > p2.current_bet
       THEN [g EXCEPT !.players.p1.stack = @ + (p1.current_bet - p2.current_bet),
                      !.players.p1.current_bet = p2.current_bet]
       ELSE IF p2.current_bet > p1.current_bet
       THEN [g EXCEPT !.players.p2.stack = @ + (p2.current_bet - p1.current_bet),
                      !.players.p2.current_bet = p1.current_bet]
       ELSE g

\* Refund that does not lower the over-committer's current_bet
RefundKeepsBet(g) ==
    LET p1 == g.players.p1
        p2 == g.players.p2
    IN IF p1.current_bet > p2.current_bet
       THEN [g EXCEPT !.players.p1.stack = @ + (p1.current_bet - p2.current_bet),
                      !.pot = @ - (p1.current_bet - p2.current_bet)]
       ELSE IF p2.current_bet > p1.current_bet
       THEN [g EXCEPT !.players.p2.stack = @ + (p2.current_bet - p1.current_bet),
                      !.pot = @ - (p2.current_bet - p1.current_bet)]
       ELSE g

\* the refund of _check_round_end (lines 302-307)
Refund(g) ==
    LET p1 == g.players.p1
        p2 == g.players.p2
    IN IF p1.current_bet > p2.current_bet
       THEN LET diff == p1.current_bet - p2.current_bet
            IN [g EXCEPT !.players.p1.stack = @ + diff,
                         !.pot = @ - diff,
                         !.players.p1.current_bet = p2.current_bet]
       ELSE IF p2.current_bet > p1.current_bet
       THEN LET diff == p2.current_bet - p1.current_bet
            IN [g EXCEPT !.players.p2.stack = @ + diff,
                         !.pot = @ - diff,
                         !.players.p2.current_bet = p1.current_bet]
       ELSE g

\* _check_round_end that leaves the turn where _apply_action put it
check_round_end_keeps_turn(g) ==
    IF is_round_over(g)
    THEN [advance_phase(Refund(g)) EXCEPT !.current_turn = g.current_turn]
    ELSE g

\* _check_round_end that deals no river: a round that ends on the turn
\* starts again on the turn
check_round_end_turn_again(g) ==
    IF is_round_over(g)
    THEN LET advanced == IF g.phase = "TURN"
                         THEN [Refund(g) EXCEPT !.actions_this_round = 0]
                         ELSE advance_phase(Refund(g))
             bb_id == IF g.dealer_button = "p1" THEN "p2" ELSE "p1"
         IN IF advanced.phase # "SHOWDOWN"
            THEN [advanced EXCEPT !.current_turn = bb_id]
            ELSE advanced
    ELSE g

\* _check_round_end
check_round_end(g) ==
    IF is_round_over(g)
    THEN LET advanced == advance_phase(Refund(g))
             bb_id == IF g.dealer_button = "p1" THEN "p2" ELSE "p1"
         IN IF advanced.phase # "SHOWDOWN"
            THEN [advanced EXCEPT
                    !.current_turn = bb_id,
                    !.message = @ \o (IF bb_id = "p1" THEN <<"round", "your_turn">>
                                      ELSE <<"round">>)]
            ELSE advanced
    ELSE g

\* Capped without the cap
Uncapped(wanted, stack) == wanted

\* the all-in cap of a call or raise (lines 214-215, 233-234)
Capped(wanted, stack) == IF wanted >= stack THEN stack ELSE wanted

\* _apply_action for a known player id
apply_action(g, player_id, action_type, amount) ==
    LET player == g.players[player_id]
        counted == [g EXCEPT !.actions_this_round = @ + 1]
        call_amount == g.highest_bet - player.current_bet
    IN CASE action_type = "fold" ->
              [counted EXCEPT
                 !.players[player_id].is_active = FALSE,
                 !.players[player_id].last_action = << "Fold", 0 >>,
                 !.phase = "SHOWDOWN",
                 !.players[Other(player_id)].stack = @ + g.pot,
                 !.message = @ \o <<"fold">>,
                 !.pot = 0]
         [] action_type = "call" ->
              LET all_in == call_amount >= player.stack
                  paid == Capped(call_amount, player.stack)
              IN [counted EXCEPT
                    !.players[player_id].last_action =
                        IF all_in THEN << "All-In", 0 >>
                        ELSE IF paid = 0 THEN << "Check", 0 >>
                        ELSE << "Call", paid >>,
                    !.message = @ \o (IF all_in THEN <<"all_in">>
                                      ELSE IF paid = 0 THEN <<"check">>
                                      ELSE <<"call">>),
                    !.players[player_id].stack = @ - paid,
                    !.players[player_id].current_bet = @ + paid,
                    !.pot = @ + paid,
                    !.current_turn = Other(player_id)]
         [] action_type = "raise" ->
              LET all_in == call_amount + amount >= player.stack
                  total_bet == Capped(call_amount + amount, player.stack)
              IN [counted EXCEPT
                    !.players[player_id].last_action =
                        IF all_in THEN << "All-In", 0 >>
                        ELSE << "Raise to", total_bet >>,
                    !.message = @ \o (IF all_in THEN <<"all_in">> ELSE <<"raise">>),
                    !.players[player_id].stack = @ - total_bet,
                    !.players[player_id].current_bet = @ + total_bet,
                    !.highest_bet = Max(g.highest_bet, player.current_bet + total_bet),
                    !.pot = @ + total_bet,
                    !.current_turn = Other(player_id)]
         [] OTHER -> counted

\* process_action raises KeyError at line 200, after clearing the message
ActionError(player_id) == IF player_id \in PlayerIds THEN "" ELSE "KeyError"

\* process_action
process_action(g, player_id, action_type, amount) ==
    LET cleared == [g EXCEPT !.message = <<>>]
    IN IF ActionError(player_id) # "" THEN cleared
       ELSE LET applied == apply_action(cleared, player_id, action_type, amount)
            IN IF applied.phase = "SHOWDOWN" THEN applied
               ELSE check_round_end(applied)

\* hand_strength of _play_ai_turn (lines 252-261)
hand_strength(g) ==
    LET hand == g.players.p2.hand IN
    IF g.phase = "PREFLOP"
    THEN IF rank(hand[1]) = rank(hand[2]) THEN 2
         ELSE IF Max(rank(hand[1]), rank(hand[2])) >= 12 THEN 1
         ELSE 0
    ELSE LET current_hand == get_current_hand_name(hand \o g.community_cards)
         IN IF current_hand \in {"ThreeOfAKind", "Straight", "Flush", "FullHouse",
                                 "FourOfAKind", "StraightFlush"} THEN 2
            ELSE IF current_hand \in {"OnePair", "TwoPair"} THEN 1
            ELSE 0

\* the values of random.random() that are explored, in hundredths: one in
\* each interval between the thresholds 0.15, 0.2, 0.25, 0.5, 0.7, 0.8
Choices == {5, 17, 22, 40, 60, 75, 90}

\* the decision of _play_ai_turn (lines 263-285): <<action, amount>>
ai_decision(g, choice) ==
    LET p2 == g.players.p2
        call_amount == g.highest_bet - p2.current_bet
        strength == hand_strength(g)
        picked ==
            IF strength = 2
            THEN IF choice < 70
                 THEN << "raise", Min((g.pot \div 2) + 20, p2.stack - call_amount) >>
                 ELSE << "call", 0 >>
            ELSE IF strength = 1
            THEN IF call_amount > (g.pot \div 3) /\ choice < 50 THEN << "fold", 0 >>
                 ELSE IF choice < 20 THEN << "raise", 50 >>
                 ELSE << "call", 0 >>
            ELSE IF call_amount > 0
                 THEN IF choice < 15 THEN << "raise", call_amount + 40 >>
                      ELSE IF choice < 80 THEN << "fold", 0 >>
                      ELSE << "call", 0 >>
                 ELSE IF choice < 25 THEN << "raise", 30 >>
                      ELSE << "call", 0 >>
    IN IF picked[1] = "raise" /\ (picked[2] <= 0 \/ p2.stack <= call_amount)
       THEN << "call", 0 >>
       ELSE picked

\* _play_ai_turn reads ranks[0] of an empty hand (line 255): IndexError
AiError(g) ==
    IF g.phase = "PREFLOP" /\ Len(g.players.p2.hand) < 2 THEN "IndexError" ELSE ""

\* _play_ai_turn, for one value of random.random()
play_ai_turn(g, choice) ==
    IF AiError(g) # "" THEN g
    ELSE LET d == ai_decision(g, choice)
         IN check_round_end(apply_action(g, "p2", d[1], d[2]))

\* CpuActs without the test of the phase
CpuActsInAnyPhase(g) == g.current_turn = "p2"

\* the guard of process_cpu_action (line 196)
CpuActs(g) == g.phase # "SHOWDOWN" /\ g.current_turn = "p2"

\* process_cpu_action, for one value of random.random()
process_cpu_action(g, choice) ==
    LET cleared == [g EXCEPT !.message = <<>>]
    IN IF CpuActs(g) THEN play_ai_turn(cleared, choice) ELSE cleared

(***************************************************************************)
(* State: the fields of game_instance; hist, a record of the last public   *)
(* call; initial_total_chips, the two stacks' sum when the current hand    *)
(* was dealt, before its blinds; and the counters that bound the           *)
(* exploration.                                                            *)
(***************************************************************************)
VARIABLES players, dealer_button, deck, community_cards, pot, highest_bet,
          phase, current_turn, message, actions_this_round,
          hist, initial_total_chips, hands, raises, irregular

vars == << players, dealer_button, deck, community_cards, pot, highest_bet,
           phase, current_turn, message, actions_this_round,
           hist, initial_total_chips, hands, raises, irregular >>

\* game_instance as a record
G == [players |-> players, dealer_button |-> dealer_button, deck |-> deck,
      community_cards |-> community_cards, pot |-> pot,
      highest_bet |-> highest_bet, phase |-> phase,
      current_turn |-> current_turn, message |-> message,
      actions_this_round |-> actions_this_round]

\* game_instance becomes g
Becomes(g) ==
    /\ players' = g.players
    /\ dealer_button' = g.dealer_button
    /\ deck' = g.deck
    /\ community_cards' = g.community_cards
    /\ pot' = g.pot
    /\ highest_bet' = g.highest_bet
    /\ phase' = g.phase
    /\ current_turn' = g.current_turn
    /\ message' = g.message
    /\ actions_this_round' = g.actions_this_round

\* the chips of g
Chips(g) ==
    [stack |-> [p \in PlayerIds |-> g.players[p].stack],
     current_bet |-> [p \in PlayerIds |-> g.players[p].current_bet],
     pot |-> g.pot,
     highest_bet |-> g.highest_bet]

NoChipsRecord ==
    [stack |-> [p \in PlayerIds |-> 0], current_bet |-> [p \in PlayerIds |-> 0],
     pot |-> 0, highest_bet |-> 0]

\* The last public call: the operation, the action it submitted to
\* _apply_action (for process_cpu_action, the policy's decision), the
\* exception it raised, whether it acted (dealt a hand / ran _apply_action),
\* the chips right after _apply_action, whether _check_round_end then found
\* the round over, and the chips right after its refund.
Call(op, player_id, action_type, amount, err, acted, applied, round_over, refunded) ==
    [op |-> op, player_id |-> player_id, action_type |-> action_type,
     amount |-> amount, err |-> err, acted |-> acted, applied |-> applied,
     round_over |-> round_over, refunded |-> refunded]

PlainCall(op, acted) ==
    Call(op, "", "", 0, "", acted, NoChipsRecord, FALSE, NoChipsRecord)

Init ==
    /\ \E shuffle \in Shuffles : 
          /\ players = Engine(shuffle).players
          /\ dealer_button = Engine(shuffle).dealer_button
          /\ deck = Engine(shuffle).deck
          /\ community_cards = Engine(shuffle).community_cards
          /\ pot = Engine(shuffle).pot
          /\ highest_bet = Engine(shuffle).highest_bet
          /\ phase = Engine(shuffle).phase
          /\ current_turn = Engine(shuffle).current_turn
          /\ message = Engine(shuffle).message
          /\ actions_this_round = Engine(shuffle).actions_this_round
    /\ hist = PlainCall("init", FALSE)
    /\ initial_total_chips = 2 * StartingStack
    /\ hands = 0
    /\ raises = 0
    /\ irregular = 0

(***************************************************************************)
(* Inputs of the endpoints.                                                *)
(***************************************************************************)
Amounts == {-100, 0, 40, 970, 2000}

\* The requests POST /api/action is given: every seat with every action
\* and, for a raise, every amount; an action type the engine does not know;
\* an id that is no seat.
Submissions ==
    {<< p, a, 0 >> : p \in PlayerIds, a \in {"fold", "call", "check"}}
    \cup {<< p, "raise", n >> : p \in PlayerIds, n \in Amounts}
    \cup {<< "p3", "call", 0 >>}

\* A submission a well-behaved caller does not make: one the boundary of
\* spec section 7 would reject (out of turn, or in phase SHOWDOWN), one for
\* no seat or with no known action or with a negative amount, or one made
\* before any hand was started.
Irregular(g, player_id, action_type, amount) ==
    \/ player_id \notin PlayerIds
    \/ action_type \notin {"fold", "call", "raise"}
    \/ g.phase = "SHOWDOWN"
    \/ player_id # g.current_turn
    \/ amount < 0
    \/ hands = 0

\* a hand asked for while one is in progress
Interrupts(g) == hands > 0 /\ g.phase # "SHOWDOWN"

\* (POST /api/start) start_game
StartGame ==
    \E shuffle \in Shuffles :
        /\ ~NoChips(G) => hands < MaxHands
        /\ Interrupts(G) => irregular < MaxIrregular
        /\ irregular' = IF Interrupts(G) THEN irregular + 1 ELSE irregular
        /\ \E g \in {start_new_hand(G, shuffle)} : Becomes(g)
        /\ hist' = PlainCall("start_new_hand", ~NoChips(G))
        /\ initial_total_chips' =
             IF NoChips(G) THEN initial_total_chips
             ELSE players.p1.stack + players.p2.stack
        /\ hands' = IF NoChips(G) THEN hands ELSE hands + 1
        /\ UNCHANGED raises

\* (POST /api/reset) reset_game
ResetGame ==
    \E shuffle \in Shuffles :
        /\ hands < MaxHands
        /\ \E g \in {reset_game(G, shuffle)} : Becomes(g)
        /\ hist' = PlainCall("reset_game", TRUE)
        /\ initial_total_chips' = 2 * StartingStack
        /\ hands' = hands + 1
        /\ UNCHANGED << raises, irregular >>

\* what a call of _apply_action followed by _check_round_end leaves in hist
ActionCall(op, g, player_id, action_type, amount, checks) ==
    LET applied == apply_action(g, player_id, action_type, amount)
        over == checks /\ is_round_over(applied)
    IN Call(op, player_id, action_type, amount, "", TRUE, Chips(applied), over,
            IF over THEN Chips(Refund(applied)) ELSE NoChipsRecord)

\* (POST /api/action) take_action
TakeAction ==
    \E sub \in Submissions :
        LET player_id == sub[1]
            action_type == sub[2]
            amount == sub[3]
        IN /\ action_type = "raise" => raises < MaxRaises
           /\ Irregular(G, player_id, action_type, amount)
                 => irregular < MaxIrregular
           /\ irregular' = IF Irregular(G, player_id, action_type, amount)
                           THEN irregular + 1 ELSE irregular
           /\ \E g \in {process_action(G, player_id, action_type, amount)} :
                 Becomes(g)
           /\ hist' =
                IF ActionError(player_id) # ""
                THEN Call("process_action", player_id, action_type, amount,
                          ActionError(player_id), FALSE, NoChipsRecord, FALSE,
                          NoChipsRecord)
                ELSE ActionCall("process_action", G, player_id, action_type,
                                amount,
                                apply_action(G, player_id, action_type,
                                             amount).phase # "SHOWDOWN")
           /\ raises' = IF action_type = "raise" THEN raises + 1 ELSE raises
           /\ UNCHANGED << hands, initial_total_chips >>

\* one value of random.random() for each decision the policy can take in g
\* (any value when the policy does not run)
ChoicesIn(g) ==
    IF CpuActs(g) /\ AiError(g) = ""
    THEN {CHOOSE c \in Choices : ai_decision(g, c) = d :
             d \in {ai_decision(g, c) : c \in Choices}}
    ELSE {CHOOSE c \in Choices : TRUE}

\* (POST /api/cpu_action) cpu_action
CpuAction ==
    \E choice \in ChoicesIn(G) :
        LET runs == CpuActs(G) /\ AiError(G) = ""
            d == ai_decision(G, choice)
        IN /\ (runs /\ d[1] = "raise") => raises < MaxRaises
           /\ \E g \in {process_cpu_action(G, choice)} : Becomes(g)
           /\ hist' =
                IF ~CpuActs(G) THEN PlainCall("process_cpu_action", FALSE)
                ELSE IF AiError(G) # ""
                THEN Call("process_cpu_action", "", "", 0, AiError(G), FALSE,
                          NoChipsRecord, FALSE, NoChipsRecord)
                ELSE ActionCall("process_cpu_action", G, "p2", d[1], d[2], TRUE)
           /\ raises' = IF runs /\ d[1] = "raise" THEN raises + 1 ELSE raises
           /\ UNCHANGED << hands, irregular, initial_total_chips >>

Next == StartGame \/ ResetGame \/ TakeAction \/ CpuAction

\* any caller
Spec == Init /\ [][Next]_vars

\* The caller the engine was written for: the human seat p1 submits its own
\* actions in turn through /api/action, the seat p2 is moved through
\* /api/cpu_action, and a hand is asked for when none is in progress.
Regular == irregular' = irregular

PlayNext ==
    \/ Regular /\ StartGame
    \/ ResetGame
    \/ Regular /\ TakeAction /\ hist'.player_id = "p1"
    \/ CpuAction

SpecPlay == Init /\ [][PlayNext]_vars

\* a hand is in progress
InHand == hands > 0 /\ phase # "SHOWDOWN"

\* The player whose turn it is submits an action, seen by what every
\* _apply_action does to the round: it counts itself in actions_this_round
\* (line 201), and the round it ends starts the count again in another
\* phase (lines 309, 319).
HandStep ==
    /\ InHand
    /\ actions_this_round' \in {0, actions_this_round + 1}
    /\ phase' \in {"PREFLOP", "FLOP", "TURN", "RIVER", "SHOWDOWN"}

\* SpecPlay where, while a hand is in progress, the player whose turn it is
\* does not stop submitting
SpecHand ==
    Init /\ [][PlayNext]_vars /\ WF_<< actions_this_round, phase >>(HandStep)

(***************************************************************************)
(* Properties.                                                             *)
(***************************************************************************)
stack(p) == players[p].stack
current_bet(p) == players[p].current_bet

\* the last call went through _apply_action
Acted == hist.op \in {"process_action", "process_cpu_action"} /\ hist.acted

\* the engine's fields other than the narration message and the deck
frame == << players, dealer_button, community_cards, pot, highest_bet, phase,
            current_turn, actions_this_round >>

\* C1: after any sequence of public calls both stacks and the pot are >= 0.
NoNegativeBalance ==
    stack("p1") >= 0 /\ stack("p2") >= 0 /\ pot >= 0

\* C2 as stated: while a hand is in progress, pot + sum(stack + current_bet)
\* equals the chips the two players held when the hand was dealt.
ChipsWithBetsConserved ==
    (hands > 0 /\ phase # "SHOWDOWN") =>
        pot + (stack("p1") + current_bet("p1")) + (stack("p2") + current_bet("p2"))
            = initial_total_chips

\* C2 as amended: while a hand is in progress, and right after every
\* _apply_action and every round-end refund of the hand, pot + sum(stack)
\* equals the chips the two players held when the hand was dealt (the pot
\* already holds the current bets).
ChipsConserved ==
    /\ (hands > 0 /\ phase # "SHOWDOWN") =>
          pot + stack("p1") + stack("p2") = initial_total_chips
    /\ (hands > 0 /\ Acted) =>
          hist.applied.pot + hist.applied.stack.p1 + hist.applied.stack.p2
              = initial_total_chips
    /\ (hands > 0 /\ Acted /\ hist.round_over) =>
          hist.refunded.pot + hist.refunded.stack.p1 + hist.refunded.stack.p2
              = initial_total_chips

\* C2 witness: a hand in progress after a raise was applied
HandAfterRaise ==
    /\ hands > 0 /\ phase # "SHOWDOWN" /\ Acted
    /\ hist.action_type = "raise" /\ pot > SmallBlind + BigBlind

\* C3: after every public call highest_bet is the larger current_bet.
HighestBetIsMax ==
    highest_bet = Max(current_bet("p1"), current_bet("p2"))

\* C4: an action submitted in phase SHOWDOWN or out of turn is rejected with
\* INVALID_ACTION and changes no stack, bet, pot, highest_bet, phase, turn,
\* community card or action count.
InvalidActionRejected ==
    [][ (/\ hist'.op = "process_action"
         /\ phase = "SHOWDOWN" \/ hist'.player_id # current_turn)
        => /\ hist'.err = "INVALID_ACTION"
           /\ \A p \in PlayerIds : /\ players'[p].stack = players[p].stack
                                   /\ players'[p].current_bet = players[p].current_bet
           /\ UNCHANGED << pot, highest_bet, phase, current_turn,
                           community_cards, actions_this_round >> ]_vars

\* C5: start_new_hand called while a stack is 0 raises nothing and changes
\* nothing but the narration message.
StartWithoutChipsIsNoOp ==
    [][ (hist'.op = "start_new_hand" /\ (stack("p1") = 0 \/ stack("p2") = 0))
        => /\ hist'.err = ""
           /\ UNCHANGED frame ]_vars

\* C5 witness: start_new_hand has just been refused for a stack of 0
StartRefused ==
    /\ hist.op = "start_new_hand" /\ ~hist.acted
    /\ stack("p1") = 0 \/ stack("p2") = 0
    /\ message = <<"no_chips">>

\* C6: process_cpu_action applies an action of p2 when it is p2's turn and
\* the phase is not SHOWDOWN; in every other state it clears the message and
\* changes nothing else.
CpuActsOnlyWhenDue ==
    [][ hist'.op = "process_cpu_action"
        => IF current_turn = "p2" /\ phase # "SHOWDOWN"
           THEN hist'.err = ""
                  => /\ hist'.acted /\ hist'.player_id = "p2"
                     /\ \/ actions_this_round' = actions_this_round + 1
                        \/ hist'.round_over
           ELSE /\ ~hist'.acted
                /\ message' = <<>>
                /\ UNCHANGED << frame, deck >> ]_vars

\* C6 witness: process_cpu_action was called in phase SHOWDOWN with
\* current_turn p2 and did nothing
CpuNotDue ==
    /\ hist.op = "process_cpu_action" /\ ~hist.acted /\ hist.err = ""
    /\ hands > 0 /\ phase = "SHOWDOWN" /\ current_turn = "p2"
    /\ message = <<>>

\* C7: a call whose required amount, or a raise whose required amount plus
\* increment, is at least the actor's stack commits exactly that stack: right
\* after _apply_action the actor's stack is 0, the actor's current_bet and
\* the pot have grown by the former stack, and no balance is negative.
AllInCapping ==
    [][ \A p \in PlayerIds :
          (/\ hist'.op \in {"process_action", "process_cpu_action"}
           /\ hist'.acted /\ hist'.player_id = p
           /\ \/ /\ hist'.action_type = "call"
                 /\ highest_bet - current_bet(p) >= stack(p)
              \/ /\ hist'.action_type = "raise"
                 /\ (highest_bet - current_bet(p)) + hist'.amount >= stack(p))
          => /\ hist'.applied.stack[p] = 0
             /\ hist'.applied.current_bet[p] = current_bet(p) + stack(p)
             /\ hist'.applied.pot = pot + stack(p)
             /\ hist'.applied.stack[Other(p)] = stack(Other(p))
             /\ hist'.applied.stack[Other(p)] >= 0
             /\ hist'.applied.current_bet[p] >= 0
             /\ hist'.applied.pot >= 0 ]_vars

\* C7 witness: an all-in for less than the bet to be matched has just been
\* applied
ShortAllIn ==
    /\ Acted /\ hist.action_type \in {"call", "raise"}
    /\ hist.applied.stack[hist.player_id] = 0
    /\ hist.applied.current_bet[hist.player_id] < hist.applied.highest_bet

\* C8: when a betting round ends with unequal current_bets, the smaller
\* bettor is all-in, the difference goes from the pot back to the other
\* player's stack, whose current_bet becomes the smaller bet, and the pot
\* keeps from the round exactly twice the smaller bet.
RoundEndRefund ==
    \A big \in PlayerIds :
        LET small == Other(big)
            a == hist.applied
            r == hist.refunded
            diff == a.current_bet[big] - a.current_bet[small]
        IN (Acted /\ hist.round_over /\ diff > 0)
           => /\ a.stack[small] = 0
              /\ r.stack[big] = a.stack[big] + diff
              /\ r.current_bet[big] = a.current_bet[small]
              /\ r.current_bet[small] = a.current_bet[small]
              /\ r.stack[small] = 0
              /\ r.pot = a.pot - diff
              /\ r.pot - (a.pot - a.current_bet[big] - a.current_bet[small])
                    = 2 * a.current_bet[small]

\* C8 witness: a betting round has just ended with unequal current_bets
RoundEndedUnequal ==
    /\ Acted /\ hist.round_over
    /\ hist.applied.current_bet.p1 # hist.applied.current_bet.p2
    /\ hist.refunded.pot < hist.applied.pot

\* the hand of the scenario of C9 has just been dealt: two stacks of 1000,
\* p1 on the button with the small blind 10 posted, p2 with the big blind 20
ScenarioDealt ==
    /\ hist.op \in {"start_new_hand", "reset_game"} /\ hist.acted
    /\ dealer_button = "p1"
    /\ stack("p1") = 990 /\ current_bet("p1") = 10
    /\ stack("p2") = 980 /\ current_bet("p2") = 20

\* p1 has called in the scenario of C9, leaving p1 with the given stack
ScenarioCalledWith(p1_stack) ==
    /\ Acted /\ hist.player_id = "p1" /\ hist.action_type = "call"
    /\ phase = "PREFLOP" /\ actions_this_round = 1
    /\ dealer_button = "p1" /\ community_cards = <<>>
    /\ stack("p1") = p1_stack /\ current_bet("p1") = 20
    /\ stack("p2") = 980 /\ current_bet("p2") = 20
    /\ pot = 40

\* p1's call in the scenario of C9 is the next call
ScenarioCall ==
    /\ ScenarioDealt
    /\ hist'.op = "process_action" /\ hist'.player_id = "p1"
    /\ hist'.action_type = "call"

\* p2's check in the scenario of C9 is the next call
ScenarioCheck ==
    /\ Acted /\ hist.player_id = "p1" /\ hist.action_type = "call"
    /\ phase = "PREFLOP" /\ actions_this_round = 1 /\ dealer_button = "p1"
    /\ current_bet("p1") = 20 /\ current_bet("p2") = 20 /\ pot = 40
    /\ hist'.op \in {"process_action", "process_cpu_action"}
    /\ hist'.player_id = "p2" /\ hist'.action_type = "call"

\* p2's check has ended the round of the scenario of C9
ScenarioChecked ==
    /\ hist'.applied.stack.p2 = 980
    /\ hist'.applied.current_bet.p2 = 20
    /\ hist'.round_over
    /\ phase' = "FLOP"
    /\ Len(community_cards') = 3
    /\ players'.p1.current_bet = 0 /\ players'.p2.current_bet = 0
    /\ pot' = 40

\* C9 as stated: from two stacks of 1000 with p1 posting 10 and p2 posting
\* 20, p1's call leaves p1 with stack 990 and bet 20; p2's check then leaves
\* p2 with stack 980 and bet 20, ends the round, and the call returns in
\* FLOP with 3 community cards, both bets 0 and pot 40.
PreflopScenarioAsStated ==
    [][ /\ ScenarioCall => ScenarioCalledWith(990)'
        /\ ScenarioCheck => ScenarioChecked ]_vars

\* C9 as amended: from two stacks of 1000 with p1 posting 10 and p2 posting
\* 20, p1's call leaves p1 with stack 980 (990 after the blind, less the 10
\* of the call) and bet 20, the hand still in PREFLOP; p2's check then
\* leaves p2 with stack 980 and bet 20, ends the round, and the call returns
\* in FLOP with 3 community cards, both bets 0, both stacks 980 and pot 40.
PreflopScenario ==
    [][ /\ ScenarioCall => ScenarioCalledWith(980)'
        /\ (ScenarioCalledWith(980) /\ ScenarioCheck)
              => /\ ScenarioChecked
                 /\ players'.p1.stack = 980 /\ players'.p2.stack = 980 ]_vars

\* C9 witness: the scenario has been played to the flop
ScenarioOnFlop ==
    /\ Acted /\ hist.player_id = "p2" /\ hist.action_type = "call"
    /\ hist.round_over /\ hist.applied.stack.p2 = 980
    /\ hist.applied.pot = 40
    /\ hist.applied.current_bet.p1 = 20 /\ hist.applied.current_bet.p2 = 20
    /\ phase = "FLOP" /\ Len(community_cards) = 3 /\ pot = 40
    /\ stack("p1") = 980 /\ stack("p2") = 980 /\ dealer_button = "p1"
    /\ current_bet("p1") = 0 /\ current_bet("p2") = 0

\* C10: whenever process_cpu_action is called with current_turn p2 and the
\* phase not SHOWDOWN, the policy completes without error and submits fold,
\* call or raise; a raise has an increment > 0 and is submitted only when
\* p2's stack exceeds the amount needed to call.
PolicyNeverFails ==
    [][ (/\ hist'.op = "process_cpu_action"
         /\ current_turn = "p2" /\ phase # "SHOWDOWN")
        => /\ hist'.err = ""
           /\ hist'.acted
           /\ hist'.action_type \in {"fold", "call", "raise"}
           /\ hist'.action_type = "raise"
                 => /\ hist'.amount > 0
                    /\ stack("p2") > highest_bet - current_bet("p2") ]_vars

\* C11: a fold during a hand ends the hand in the same call: the folder is
\* inactive, the phase is SHOWDOWN, no card is dealt and no hand evaluated,
\* the other player's stack grows by the whole pot, the pot is 0 and the
\* folder's stack is unchanged.
FoldEndsHand ==
    [][ \A p \in PlayerIds :
          (/\ Acted' /\ hist'.player_id = p /\ hist'.action_type = "fold"
           /\ phase # "SHOWDOWN")
          => /\ ~players'[p].is_active
             /\ phase' = "SHOWDOWN"
             /\ community_cards' = community_cards /\ deck' = deck
             /\ message' = <<"fold">>
             /\ players'[Other(p)].stack = stack(Other(p)) + pot
             /\ players'[p].stack = stack(p)
             /\ pot' = 0 ]_vars

\* C11 witness: a player has just folded to a bet it had not matched
FoldedToBet ==
    /\ Acted /\ hist.action_type = "fold" /\ hands > 0
    /\ phase = "SHOWDOWN" /\ pot = 0
    /\ ~players[hist.player_id].is_active
    /\ current_bet(Other(hist.player_id)) > current_bet(hist.player_id)

\* the round-end condition of C12 on the chips right after _apply_action,
\* with n actions taken in the phase
RoundEnds(a, n) ==
    \/ a.current_bet.p1 = a.current_bet.p2 /\ n >= 2
    \/ \E s \in PlayerIds : /\ a.current_bet[s] < a.current_bet[Other(s)]
                            /\ a.stack[s] = 0

\* C12: a call or raise applied outside SHOWDOWN advances the phase in the
\* same call exactly when both bets are equal after at least two actions of
\* the phase, or the bets differ and the smaller bettor's stack is 0;
\* otherwise the phase and the community cards stay and the turn passes to
\* the other player.
PhaseAdvancesWhenRoundEnds ==
    [][ \A p \in PlayerIds :
          (/\ Acted' /\ hist'.player_id = p
           /\ hist'.action_type \in {"call", "raise"}
           /\ phase # "SHOWDOWN")
          => /\ (phase' # phase)
                   <=> RoundEnds(hist'.applied, actions_this_round + 1)
             /\ ~RoundEnds(hist'.applied, actions_this_round + 1)
                   => /\ phase' = phase
                      /\ community_cards' = community_cards
                      /\ current_turn' = Other(p) ]_vars

\* C12 witness: a call has made the bets equal as the first action of the
\* phase, and the hand waits for the other player
EqualBetsAfterOneAction ==
    /\ Acted /\ hist.action_type = "call" /\ ~hist.round_over /\ hands > 0
    /\ phase = "PREFLOP" /\ actions_this_round = 1
    /\ current_bet("p1") = current_bet("p2")
    /\ current_turn = Other(hist.player_id)

\* the last call evaluated the hands
Evaluated == \E i \in DOMAIN message : message[i] \in {"p1_wins", "p2_wins", "draw"}

\* C13: when a call or raise ends a betting round while a stack is 0 after
\* the refund, the same call returns in SHOWDOWN with 5 community cards, the
\* winner evaluated and the pot paid out; and no state in FLOP, TURN or RIVER
\* with a stack of 0 and no action taken in the phase is ever observable.
AllInRunsOut ==
    /\ [][ (/\ Acted' /\ hist'.action_type \in {"call", "raise"}
            /\ phase # "SHOWDOWN"
            /\ RoundEnds(hist'.applied, actions_this_round + 1)
            /\ hist'.refunded.stack.p1 = 0 \/ hist'.refunded.stack.p2 = 0)
           => /\ phase' = "SHOWDOWN"
              /\ Len(community_cards') = 5
              /\ Evaluated'
              /\ pot' = 0
              /\ players'.p1.stack + players'.p2.stack
                    = hist'.refunded.stack.p1 + hist'.refunded.stack.p2
                      + hist'.refunded.pot ]_vars
    /\ [](~(/\ hands > 0 /\ phase \in {"FLOP", "TURN", "RIVER"}
            /\ actions_this_round = 0
            /\ stack("p1") = 0 \/ stack("p2") = 0))

\* C13 witness: an all-in before the river has just been run out to the
\* showdown (advance_phase cleared both last_actions on the way)
RanOut ==
    /\ Acted /\ hist.round_over /\ hands > 0
    /\ hist.refunded.stack.p1 = 0 \/ hist.refunded.stack.p2 = 0
    /\ phase = "SHOWDOWN" /\ Len(community_cards) = 5 /\ pot = 0
    /\ players.p1.last_action = NoAction /\ players.p2.last_action = NoAction
    /\ Evaluated

\* C14: when the river round ends and the hands are evaluated, with E1 and
\* E2 the best-of-seven evaluations: if E1 > E2 p1's stack grows by the whole
\* pot and p2's is unchanged, if E2 > E1 the reverse, if E1 = E2 each stack
\* grows by pot \div 2; the pot is 0 afterwards.
ShowdownPaysBestHand ==
    [][ (/\ Acted' /\ hist'.action_type \in {"call", "raise"}
         /\ phase # "SHOWDOWN" /\ phase' = "SHOWDOWN")
        => \E E1 \in {get_best_hand(players'.p1.hand \o community_cards')} :
           \E E2 \in {get_best_hand(players'.p2.hand \o community_cards')} :
           LET r == hist'.refunded
           IN /\ hist'.round_over
              /\ pot' = 0
              /\ IF EvalGT(E1, E2)
                 THEN /\ players'.p1.stack = r.stack.p1 + r.pot
                      /\ players'.p2.stack = r.stack.p2
                 ELSE IF EvalGT(E2, E1)
                 THEN /\ players'.p2.stack = r.stack.p2 + r.pot
                      /\ players'.p1.stack = r.stack.p1
                 ELSE /\ players'.p1.stack = r.stack.p1 + (r.pot \div 2)
                      /\ players'.p2.stack = r.stack.p2 + (r.pot \div 2) ]_vars

\* C14 witness: a showdown has just split a pot between equal hands
ShowdownSplit ==
    /\ Acted /\ hist.round_over /\ hands > 0
    /\ phase = "SHOWDOWN" /\ Len(community_cards) = 5 /\ pot = 0
    /\ hist.refunded.pot > 0
    /\ stack("p1") = hist.refunded.stack.p1 + (hist.refunded.pot \div 2)
    /\ stack("p2") = hist.refunded.stack.p2 + (hist.refunded.pot \div 2)

\* C15: right after a hand is started current_turn is the dealer button;
\* when a betting round ends into FLOP, TURN or RIVER current_turn is the
\* seat that is not the dealer button; after a call or raise that does not
\* end the round current_turn is the player other than the actor.
TurnOrdering ==
    [][ /\ (hist'.op \in {"start_new_hand", "reset_game"} /\ hist'.acted)
              => current_turn' = dealer_button'
        /\ (/\ Acted' /\ hist'.round_over
            /\ phase' \in {"FLOP", "TURN", "RIVER"})
              => current_turn' # dealer_button' /\ current_turn' \in PlayerIds
        /\ \A p \in PlayerIds :
              (/\ Acted' /\ hist'.player_id = p
               /\ hist'.action_type \in {"call", "raise"}
               /\ ~hist'.round_over)
                 => current_turn' # p /\ current_turn' \in PlayerIds ]_vars

\* C15 witness: the big blind has closed the preflop round and is first to
\* act on the flop
BigBlindActsFirstOnFlop ==
    /\ Acted /\ hist.round_over /\ hands > 0
    /\ phase = "FLOP" /\ actions_this_round = 0
    /\ current_turn # dealer_button
    /\ hist.player_id = current_turn

\* the blinds of C16 as posted from the stacks s0 with the button at sb
BlindsPosted(s0, sb) ==
    LET bb == IF sb = "p1" THEN "p2" ELSE "p1"
        sb_post == IF s0[sb] < 10 THEN s0[sb] ELSE 10
        bb_post == IF s0[bb] < 20 THEN s0[bb] ELSE 20
    IN /\ players'[sb].current_bet = sb_post
       /\ players'[sb].stack = s0[sb] - sb_post
       /\ players'[bb].current_bet = bb_post
       /\ players'[bb].stack = s0[bb] - bb_post
       /\ pot' = sb_post + bb_post
       /\ highest_bet' = IF sb_post > bb_post THEN sb_post ELSE bb_post

\* C16: a hand started by start_new_hand has the dealer button at the other
\* seat than before, and nothing but start_new_hand and reset_game moves the
\* button; in every started hand the button seat posts min(10, stack) and
\* the other seat min(20, stack), the pot is the sum of the two posts and
\* highest_bet the larger one.
BlindRotation ==
    [][ /\ (hist'.op = "start_new_hand" /\ hist'.acted)
              => /\ dealer_button' # dealer_button
                 /\ dealer_button' \in PlayerIds
                 /\ BlindsPosted([p \in PlayerIds |-> stack(p)], dealer_button')
        /\ (hist'.op = "reset_game")
              => BlindsPosted([p \in PlayerIds |-> 1000], dealer_button')
        /\ (\/ hist'.op \in {"process_action", "process_cpu_action"}
            \/ hist'.op = "start_new_hand" /\ ~hist'.acted)
              => dealer_button' = dealer_button ]_vars

\* C16 witness: a second hand in a row has been started with the button
\* moved to p2, and p1 could post only 10 of the big blind
ShortBigBlindPosted ==
    /\ hist.op = "start_new_hand" /\ hist.acted /\ hands = 2
    /\ dealer_button = "p2"
    /\ stack("p1") = 0 /\ current_bet("p1") = 10
    /\ current_bet("p2") = 10 /\ pot = 20 /\ highest_bet = 10

\* C17: in a started hand, up to and including the fold or the showdown that
\* ends it, p1.stack + p2.stack + pot is the chips the two players held when
\* the hand was dealt, also right after each _apply_action and each refund;
\* and a pot that evaluate_winner splits is even.
ChipsConstantThroughShowdown ==
    /\ hands > 0 => stack("p1") + stack("p2") + pot = initial_total_chips
    /\ (hands > 0 /\ Acted) =>
          hist.applied.stack.p1 + hist.applied.stack.p2 + hist.applied.pot
              = initial_total_chips
    /\ (hands > 0 /\ Acted /\ hist.round_over) =>
          /\ hist.refunded.stack.p1 + hist.refunded.stack.p2 + hist.refunded.pot
                = initial_total_chips
          /\ (\E i \in DOMAIN message : message[i] = "draw")
                => hist.refunded.pot % 2 = 0

\* C17 witness: a pot that a called raise had built has just been split
ChoppedRaisedPot ==
    /\ Acted /\ hist.round_over /\ hands > 0 /\ phase = "SHOWDOWN"
    /\ \E i \in DOMAIN message : message[i] = "draw"
    /\ hist.refunded.pot > 2 * BigBlind /\ hist.refunded.pot % 2 = 0
    /\ pot = 0 /\ stack("p1") + stack("p2") = initial_total_chips

\* C18: start_new_hand, in whatever state it is called, leaves
\* p1.stack + p2.stack + pot as it was.
StartKeepsChips ==
    [][ hist'.op = "start_new_hand"
        => players'.p1.stack + players'.p2.stack + pot'
              = stack("p1") + stack("p2") + pot ]_vars

\* C19: after start_new_hand, process_action or process_cpu_action returns
\* in a started hand with the phase not SHOWDOWN, the player whose turn it
\* is has chips left.
TurnPlayerHasChips ==
    (/\ hands > 0 /\ phase # "SHOWDOWN"
     /\ hist.op \in {"start_new_hand", "process_action", "process_cpu_action"})
    => stack(current_turn) > 0

\* the place of a phase in PREFLOP, FLOP, TURN, RIVER, SHOWDOWN
PhaseIndex(ph) ==
    CASE ph = "PREFLOP" -> 0
      [] ph = "FLOP" -> 1
      [] ph = "TURN" -> 2
      [] ph = "RIVER" -> 3
      [] ph = "SHOWDOWN" -> 4

=============================================================================
